---- MODULE Spec2Model ----
(***************************************************************************)
(* Model of the gemini-desktop Tauri shell: the create_gemini_webview and  *)
(* create_options_window commands (src-tauri/src/commands/webview.rs,      *)
(* src-tauri/src/windows/options.rs) and the main-window event handler     *)
(* registered in run() (src-tauri/src/lib.rs).                             *)
(*                                                                         *)
(* Commands are `async fn` Tauri commands: they run on the async runtime,  *)
(* not on the UI thread, so each host call of a command is one atomic step *)
(* and window events interleave with them.  The window-event closure runs  *)
(* on the UI thread and is one atomic step.                                *)
(*                                                                         *)
(* Scale factors are f64 in the source.  They are modelled in hundredths   *)
(* (130 is 1.3).  32.0 * s is exact in binary floating point (a power of   *)
(* two), and for s a whole number of hundredths 32*s is never within 0.01  *)
(* of a half and is an integer only for multiples of 0.25, which are exact *)
(* doubles: so integer arithmetic on hundredths gives the same truncation  *)
(* and the same rounding as the f64 code.                                  *)
(***************************************************************************)
EXTENDS Integers, Sequences, FiniteSets, TLC

\* Number of front-end invocations that can be in flight at the same time.
NumInvokers == 2

Invokers == 1..NumInvokers

TITLEBAR_HEIGHT == 32
GEMINI_URL == "https://gemini.google.com"
I32Max == 2147483647
DefaultScale == 100

\* Display scale factors (hundredths) and physical window sizes the host
\* may report.
ScaleFactors == {100, 130, 200}
Sizes == { [width |-> 800,  height |-> 600],
           [width |-> 1600, height |-> 42] }

NoBounds == [x |-> -1, y |-> -1, width |-> -1, height |-> -1]
NoSize == [width |-> -1, height |-> -1]
NoRead == [sf |-> 0, size |-> NoSize]
NoAttach == [sf |-> 0, size |-> NoSize, bounds |-> NoBounds]
NoEvent == [kind |-> "none", sfRead |-> "none", sf |-> 0, req |-> NoBounds,
            set |-> "none"]

EventKinds == {"Resized", "Moved", "Focused"}

VARIABLES
    mainExists,    \* a window labelled "main" exists (and run() registered the listener)
    winSize,       \* main window: current physical inner size
    scale,         \* main window: current scale factor, in hundredths
    view,          \* "Absent" / "Present": the view labelled "gemini-webview"
    viewBounds,    \* the view's bounds as the host holds them
    viewUrl,       \* the view's URL
    viewsCreated,  \* number of successful add_child calls
    attached,      \* arguments of the successful add_child call
    optWindows,    \* number of windows labelled "options"
    optMinimized,  \* the options window is minimized
    pc,            \* per invocation: the next host call of the command
    cmd,           \* per invocation: the command invoked
    result,        \* per invocation: the value returned to the front-end
    calls,         \* per invocation: the fallible host calls made, with outcome
    rd,            \* per invocation: scale_factor and size locals of create_gemini_webview
    ev,            \* the last window event handled and what the handler did
    loopAlive,     \* the UI event loop has not been interrupted by the handler
    hostFailed     \* some host call has returned an error

vars == <<mainExists, winSize, scale, view, viewBounds, viewUrl, viewsCreated,
          attached, optWindows, optMinimized, pc, cmd, result, calls, rd, ev,
          loopAlive, hostFailed>>

webviewVars == <<view, viewBounds, viewUrl, viewsCreated, attached>>
optionVars == <<optWindows, optMinimized>>
windowVars == <<mainExists, winSize, scale>>
eventVars == <<ev, loopAlive>>

-----------------------------------------------------------------------------
\* Pure computations.

\* `x as u32` for a non-negative f64 num/den: truncation toward zero.  The
\* cast saturates at 2^32 - 1, which 32 * scale_factor reaches only for scale
\* factors above 10^8; every value here is far below it.
AsU32(num, den) == num \div den

\* `x as i32` for a u32: two's complement reinterpretation (u - 2^32 above
\* i32::MAX).
AsI32(u) == IF u > I32Max THEN ((u - I32Max) - I32Max) - 2 ELSE u

\* webview.rs:42  (TITLEBAR_HEIGHT * scale_factor) as u32
titlebar_height_phys(sf) == AsU32(TITLEBAR_HEIGHT * sf, 100)

\* Variant of view_height without the clamp: the bare subtraction, which is
\* below zero (a wrapped u32 in a release build) when h < tb.
view_height_unclamped(h, tb) == h - tb

\* webview.rs:47-51
view_height(h, tb) == IF h > tb THEN h - tb ELSE 0

\* webview.rs:42-66: the position and size passed to add_child.
create_bounds(size, sf) ==
    LET tb == titlebar_height_phys(sf) IN
    [x |-> 0, y |-> AsI32(tb), width |-> size.width,
     height |-> view_height(size.height, tb)]

\* crate::utils::calculate_webview_bounds (utils is not among the sources):
\* the Geometry Calculator of the specification, section 4.1.
calculate_webview_bounds(w, h, sf, tbLogical) ==
    LET tb == (tbLogical * sf + 50) \div 100 IN
    [x |-> 0, y |-> tb, width |-> w, height |-> IF h > tb THEN h - tb ELSE 0]

\* Variant of ViewExists: the existence check is lost.
ViewExistsNever(v) == FALSE

\* app.get_webview("gemini-webview").is_some()
ViewExists(v) == v = "Present"

\* Variant of OptionsExists: the existence check is lost.
OptionsExistsNever(n) == FALSE

\* app.get_webview_window(OPTIONS_WINDOW_LABEL) is Some
OptionsExists(n) == n > 0

\* Variant of MainWindowFound: the missing window is not detected.
MainWindowFoundAlways(m) == TRUE

\* app.get_window("main") is Some
MainWindowFound(m) == m

\* Variant of IsResized: every window event is treated as a resize.
IsResizedAny(kind) == TRUE

\* lib.rs:74  if let tauri::WindowEvent::Resized(size) = event
IsResized(kind) == kind = "Resized"

\* Variant of scale_factor_or: unwrap_or_default(), which is 0.0 for f64.
scale_factor_or_zero(ok, sf) == IF ok THEN sf ELSE 0

\* lib.rs:77  main_window_clone.scale_factor().unwrap_or(1.0)
scale_factor_or(ok, sf) == IF ok THEN sf ELSE DefaultScale

\* Variant of AfterUnminimize: the un-minimize error is propagated with `?`.
AfterUnminimizeAbort(ok) == IF ok THEN "set_focus_existing" ELSE "done"

\* options.rs:50-52: the error is only logged, the command goes on to set_focus.
AfterUnminimize(ok) == "set_focus_existing"

\* Variant of AttachResult: an attach error is logged and Ok(()) returned.
AttachResultLenient(ok) == "Ok"

\* webview.rs:68-74: the result of the command after add_child.
AttachResult(ok) == IF ok THEN "Ok" ELSE "TauriError"

Call(op, ok) == [op |-> op, ok |-> ok]

-----------------------------------------------------------------------------
Init ==
    /\ mainExists \in BOOLEAN
    /\ winSize \in Sizes
    /\ scale \in ScaleFactors
    /\ view = "Absent"
    /\ viewBounds = NoBounds
    /\ viewUrl = ""
    /\ viewsCreated = 0
    /\ attached = NoAttach
    /\ optWindows = 0
    /\ optMinimized = FALSE
    /\ pc = [p \in Invokers |-> "idle"]
    /\ cmd = [p \in Invokers |-> "none"]
    /\ result = [p \in Invokers |-> "none"]
    /\ calls = [p \in Invokers |-> <<>>]
    /\ rd = [p \in Invokers |-> NoRead]
    /\ ev = NoEvent
    /\ loopAlive = TRUE
    /\ hostFailed = FALSE

\* The command returns r; its locals are dropped.
Finish(p, r) ==
    /\ pc' = [pc EXCEPT ![p] = "done"]
    /\ result' = [result EXCEPT ![p] = r]
    /\ rd' = [rd EXCEPT ![p] = NoRead]

\* The command goes on to its next host call, with scale factor sf and size
\* sz in its locals.
Goto(p, l, sf, sz) ==
    /\ pc' = [pc EXCEPT ![p] = l]
    /\ rd' = [rd EXCEPT ![p] = [sf |-> sf, size |-> sz]]
    /\ UNCHANGED result

Log(p, op, ok) ==
    /\ calls' = [calls EXCEPT ![p] = Append(@, Call(op, ok))]
    /\ hostFailed' = (hostFailed \/ ~ok)

\* The front-end invokes a command.
Invoke(p, c) ==
    /\ pc[p] = "idle"
    /\ cmd' = [cmd EXCEPT ![p] = c]
    /\ pc' = [pc EXCEPT ![p] =
                IF c = "create_gemini_webview" THEN "get_window" ELSE "get_options"]
    /\ UNCHANGED <<result, calls, rd, hostFailed>>
    /\ UNCHANGED <<webviewVars, optionVars, windowVars, eventVars>>

\* The front-end receives the result.
Return(p) ==
    /\ pc[p] = "done"
    /\ pc' = [pc EXCEPT ![p] = "idle"]
    /\ cmd' = [cmd EXCEPT ![p] = "none"]
    /\ result' = [result EXCEPT ![p] = "none"]
    /\ calls' = [calls EXCEPT ![p] = <<>>]
    /\ rd' = [rd EXCEPT ![p] = NoRead]
    /\ UNCHANGED hostFailed
    /\ UNCHANGED <<webviewVars, optionVars, windowVars, eventVars>>

-----------------------------------------------------------------------------
\* create_gemini_webview

GetWindow(p) ==
    /\ pc[p] = "get_window"
    /\ IF MainWindowFound(mainExists)
         THEN Goto(p, "get_webview", rd[p].sf, rd[p].size)
         ELSE Finish(p, "WindowNotFound")
    /\ UNCHANGED <<cmd, calls, hostFailed>>
    /\ UNCHANGED <<webviewVars, optionVars, windowVars, eventVars>>

GetWebview(p) ==
    /\ pc[p] = "get_webview"
    /\ IF ViewExists(view)
         THEN Finish(p, "Ok")
         ELSE Goto(p, "scale_factor", rd[p].sf, rd[p].size)
    /\ UNCHANGED <<cmd, calls, hostFailed>>
    /\ UNCHANGED <<webviewVars, optionVars, windowVars, eventVars>>

ScaleFactor(p) ==
    /\ pc[p] = "scale_factor"
    /\ \E ok \in BOOLEAN :
         /\ Log(p, "scale_factor", ok)
         /\ IF ok
              THEN Goto(p, "inner_size", scale, rd[p].size)
              ELSE Finish(p, "TauriError")
    /\ UNCHANGED cmd
    /\ UNCHANGED <<webviewVars, optionVars, windowVars, eventVars>>

InnerSize(p) ==
    /\ pc[p] = "inner_size"
    /\ \E ok \in BOOLEAN :
         /\ Log(p, "inner_size", ok)
         /\ IF ok
              THEN Goto(p, "add_child", rd[p].sf, winSize)
              ELSE Finish(p, "TauriError")
    /\ UNCHANGED cmd
    /\ UNCHANGED <<webviewVars, optionVars, windowVars, eventVars>>

\* The host rejects a second view with a label that is already in use.
AddChild(p) ==
    /\ pc[p] = "add_child"
    /\ \E hostOk \in BOOLEAN :
         LET ok == hostOk /\ view = "Absent"
             b == create_bounds(rd[p].size, rd[p].sf)
         IN /\ Log(p, "add_child", ok)
            /\ Finish(p, AttachResult(ok))
            /\ IF ok
                 THEN /\ view' = "Present"
                      /\ viewBounds' = b
                      /\ viewUrl' = GEMINI_URL
                      /\ viewsCreated' = viewsCreated + 1
                      /\ attached' = [sf |-> rd[p].sf, size |-> rd[p].size, bounds |-> b]
                 ELSE UNCHANGED webviewVars
    /\ UNCHANGED cmd
    /\ UNCHANGED <<optionVars, windowVars, eventVars>>

-----------------------------------------------------------------------------
\* create_options_window

GetOptions(p) ==
    /\ pc[p] = "get_options"
    /\ IF OptionsExists(optWindows)
         THEN Goto(p, "unminimize", rd[p].sf, rd[p].size)
         ELSE Goto(p, "build", rd[p].sf, rd[p].size)
    /\ UNCHANGED <<cmd, calls, hostFailed>>
    /\ UNCHANGED <<webviewVars, optionVars, windowVars, eventVars>>

Unminimize(p) ==
    /\ pc[p] = "unminimize"
    /\ \E ok \in BOOLEAN :
         /\ Log(p, "unminimize", ok)
         /\ IF AfterUnminimize(ok) = "done"
              THEN Finish(p, "TauriError")
              ELSE Goto(p, AfterUnminimize(ok), rd[p].sf, rd[p].size)
         /\ optMinimized' = IF ok THEN FALSE ELSE optMinimized
    /\ UNCHANGED <<cmd, optWindows>>
    /\ UNCHANGED <<webviewVars, windowVars, eventVars>>

SetFocusExisting(p) ==
    /\ pc[p] = "set_focus_existing"
    /\ \E ok \in BOOLEAN :
         /\ Log(p, "set_focus", ok)
         /\ Finish(p, IF ok THEN "Ok" ELSE "TauriError")
    /\ UNCHANGED cmd
    /\ UNCHANGED <<webviewVars, optionVars, windowVars, eventVars>>

\* The host rejects a second window with a label that is already in use.
Build(p) ==
    /\ pc[p] = "build"
    /\ \E hostOk \in BOOLEAN :
         LET ok == hostOk /\ optWindows = 0 IN
         /\ Log(p, "build", ok)
         /\ IF ok
              THEN /\ optWindows' = optWindows + 1
                   /\ optMinimized' = FALSE
                   /\ Goto(p, "set_focus_new", rd[p].sf, rd[p].size)
              ELSE /\ UNCHANGED optionVars
                   /\ Finish(p, "TauriError")
    /\ UNCHANGED cmd
    /\ UNCHANGED <<webviewVars, windowVars, eventVars>>

SetFocusNew(p) ==
    /\ pc[p] = "set_focus_new"
    /\ \E ok \in BOOLEAN :
         /\ Log(p, "set_focus", ok)
         /\ Finish(p, IF ok THEN "Ok" ELSE "TauriError")
    /\ UNCHANGED cmd
    /\ UNCHANGED <<webviewVars, optionVars, windowVars, eventVars>>

\* The user closes the options window with its close button.
CloseOptions ==
    /\ optWindows > 0
    /\ optWindows' = 0
    /\ optMinimized' = FALSE
    /\ UNCHANGED <<pc, cmd, result, calls, rd, hostFailed>>
    /\ UNCHANGED <<webviewVars, windowVars, eventVars>>

\* The user minimizes the options window with its minimize button.
MinimizeOptions ==
    /\ optWindows > 0
    /\ ~optMinimized
    /\ optMinimized' = TRUE
    /\ UNCHANGED <<optWindows, pc, cmd, result, calls, rd, hostFailed>>
    /\ UNCHANGED <<webviewVars, windowVars, eventVars>>

-----------------------------------------------------------------------------
\* The closure registered with main_window.on_window_event.

\* lib.rs:77 and :86: neither error leaves the closure.
HandlerPropagates(sfOk, setOk) == FALSE

\* The host resizes the main window to `size` and dispatches Resized(size).
OnResized(size) ==
    /\ mainExists
    /\ loopAlive
    /\ winSize' = size
    /\ IF ViewExists(view)
         THEN \E sfOk \in BOOLEAN, setOk \in BOOLEAN :
                LET sf == scale_factor_or(sfOk, scale)
                    b == calculate_webview_bounds(size.width, size.height, sf,
                                                  TITLEBAR_HEIGHT)
                IN /\ viewBounds' = IF setOk THEN b ELSE viewBounds
                   /\ ev' = [kind |-> "Resized",
                             sfRead |-> IF sfOk THEN "ok" ELSE "err",
                             sf |-> sf, req |-> b,
                             set |-> IF setOk THEN "ok" ELSE "err"]
                   /\ loopAlive' = ~HandlerPropagates(sfOk, setOk)
                   /\ hostFailed' = (hostFailed \/ ~sfOk \/ ~setOk)
         ELSE /\ ev' = [NoEvent EXCEPT !.kind = "Resized"]
              /\ UNCHANGED <<viewBounds, loopAlive, hostFailed>>
    /\ UNCHANGED <<mainExists, scale, view, viewUrl, viewsCreated, attached>>
    /\ UNCHANGED <<pc, cmd, result, calls, rd>>
    /\ UNCHANGED optionVars

\* The host dispatches a window event that is not Resized.
OnOtherEvent(kind) ==
    /\ mainExists
    /\ loopAlive
    /\ kind # "Resized"
    /\ IF IsResized(kind) /\ ViewExists(view)
         THEN LET b == calculate_webview_bounds(winSize.width, winSize.height,
                                                scale, TITLEBAR_HEIGHT)
              IN /\ viewBounds' = b
                 /\ ev' = [kind |-> kind, sfRead |-> "ok", sf |-> scale,
                           req |-> b, set |-> "ok"]
         ELSE /\ ev' = [NoEvent EXCEPT !.kind = kind]
              /\ UNCHANGED viewBounds
    /\ UNCHANGED <<loopAlive, hostFailed>>
    /\ UNCHANGED <<windowVars, view, viewUrl, viewsCreated, attached>>
    /\ UNCHANGED <<pc, cmd, result, calls, rd>>
    /\ UNCHANGED optionVars

-----------------------------------------------------------------------------
\* The embedded view: create_gemini_webview invocations and the main window's
\* events.
Next ==
    \/ \E p \in Invokers : Invoke(p, "create_gemini_webview")
    \/ \E p \in Invokers : Return(p)
    \/ \E p \in Invokers : GetWindow(p)
    \/ \E p \in Invokers : GetWebview(p)
    \/ \E p \in Invokers : ScaleFactor(p)
    \/ \E p \in Invokers : InnerSize(p)
    \/ \E p \in Invokers : AddChild(p)
    \/ \E size \in Sizes : OnResized(size)
    \/ \E kind \in EventKinds \ {"Resized"} : OnOtherEvent(kind)

Spec == Init /\ [][Next]_vars

\* The options window: create_options_window invocations and the user's use of
\* the window's buttons.  The command reads and writes nothing of the embedded
\* view or the main window, and create_gemini_webview and the event handler
\* nothing of the options window, so the two are explored separately.
NextOptions ==
    \/ \E p \in Invokers : Invoke(p, "create_options_window")
    \/ \E p \in Invokers : Return(p)
    \/ \E p \in Invokers : GetOptions(p)
    \/ \E p \in Invokers : Unminimize(p)
    \/ \E p \in Invokers : SetFocusExisting(p)
    \/ \E p \in Invokers : Build(p)
    \/ \E p \in Invokers : SetFocusNew(p)
    \/ CloseOptions
    \/ MinimizeOptions

SpecOptions == Init /\ [][NextOptions]_vars

-----------------------------------------------------------------------------
\* Properties.

LastCall(p) == calls[p][Len(calls[p])]

\* A step of the window-event closure: every step of an invocation moves its pc.
HandlerStep == pc' = pc

\* round(32 * scaleFactor), to the nearest integer.
TitlebarRounded(sf) == (TITLEBAR_HEIGHT * sf + 50) \div 100

\* C1: create_gemini_webview is idempotent.  At most one view is ever created;
\* an invocation that returned Ok(()) leaves exactly one view; and an
\* invocation that finds the view present returns Ok(()) at once, making no
\* further host call and leaving the view, its bounds and its URL unchanged.
C1_Idempotent ==
    /\ [](/\ viewsCreated <= 1
          /\ \A p \in Invokers :
               (pc[p] = "done" /\ result[p] = "Ok")
                  => (view = "Present" /\ viewsCreated = 1))
    /\ [][\A p \in Invokers :
            (pc[p] = "get_webview" /\ view = "Present" /\ pc'[p] # pc[p])
               => /\ pc'[p] = "done"
                  /\ result'[p] = "Ok"
                  /\ calls'[p] = <<>>
                  /\ view' = "Present"
                  /\ viewBounds' = viewBounds
                  /\ viewUrl' = viewUrl
                  /\ viewsCreated' = viewsCreated]_vars

\* A later invocation has returned Ok(()) without a host call; one view exists.
C1_Witness ==
    \E p \in Invokers :
        /\ pc[p] = "done" /\ result[p] = "Ok" /\ calls[p] = <<>>
        /\ viewsCreated = 1 /\ viewUrl = GEMINI_URL

\* C2: at most one window labelled "options" exists.  An invocation that finds
\* one goes on to un-minimize and focus it and builds nothing; an invocation
\* that finds none goes on to build, and a build the host accepts takes the
\* number of options windows from zero to exactly one.
C2_SingleOptionsWindow ==
    /\ [](/\ optWindows <= 1
          /\ \A p \in Invokers :
               (pc[p] = "done" /\ Len(calls[p]) > 0 /\ calls[p][1].op = "unminimize")
                  => /\ Len(calls[p]) = 2
                     /\ calls[p][2].op = "set_focus")
    /\ [][\A p \in Invokers :
            /\ (pc[p] = "get_options" /\ pc'[p] # pc[p])
                 => /\ pc'[p] = IF optWindows > 0 THEN "unminimize" ELSE "build"
                    /\ optWindows' = optWindows
            /\ (pc[p] \in {"unminimize", "set_focus_existing"} /\ pc'[p] # pc[p])
                 => optWindows' = optWindows
            /\ (pc[p] = "build" /\ pc'[p] = "set_focus_new")
                 => (optWindows = 0 /\ optWindows' = 1)]_vars

\* An invocation found the window, un-minimized and focused it; one window exists.
C2_Witness ==
    \E p \in Invokers :
        /\ pc[p] = "done" /\ Len(calls[p]) = 2
        /\ calls[p][1].op = "unminimize" /\ calls[p][2].op = "set_focus"
        /\ optWindows = 1

\* C3: without a main window, create_gemini_webview returns WindowNotFound,
\* never reaches the scale-factor query, the size query or the attach call,
\* and no view exists.
C3_WindowNotFound ==
    ~mainExists =>
        /\ view = "Absent"
        /\ viewsCreated = 0
        /\ \A p \in Invokers :
             /\ pc[p] \notin {"get_webview", "scale_factor", "inner_size", "add_child"}
             /\ calls[p] = <<>>
             /\ pc[p] = "done" => result[p] = "WindowNotFound"

C3_Witness ==
    /\ ~mainExists
    /\ \E p \in Invokers : pc[p] = "done" /\ result[p] = "WindowNotFound"

\* C4: the bounds create_gemini_webview passes to add_child have x = 0 and
\* y = round(32 * scaleFactor), rounded to the nearest integer.
C4_RoundedTitlebar ==
    attached # NoAttach =>
        /\ attached.bounds.x = 0
        /\ attached.bounds.y = TitlebarRounded(attached.sf)

C6_ResizeHandler ==
    [][HandlerStep =>
        /\ (ev'.kind = "Resized" /\ view = "Absent")
             => /\ view' = "Absent"
                /\ viewBounds' = viewBounds
                /\ viewsCreated' = viewsCreated
                /\ ev'.req = NoBounds
        /\ (ev'.kind = "Resized" /\ view = "Present")
             => /\ ev'.req = calculate_webview_bounds(winSize'.width, winSize'.height,
                                                      ev'.sf, TITLEBAR_HEIGHT)
                /\ ev'.sfRead = "ok" => ev'.sf = scale
                /\ ev'.set \in {"ok", "err"}
                /\ ev'.set = "ok" => viewBounds' = ev'.req
        /\ ev'.kind # "Resized"
             => /\ viewBounds' = viewBounds
                /\ ev'.req = NoBounds]_vars

\* A resize was handled with the view present and the host applied the bounds.
C6_Witness ==
    /\ view = "Present"
    /\ ev.kind = "Resized" /\ ev.sfRead = "ok" /\ ev.set = "ok"
    /\ viewBounds = ev.req
    /\ viewBounds # attached.bounds

\* C7: the resize path never fails.  A failed scale-factor query makes the
\* handler use 1.0 and still request the bounds update; a failed set-bounds
\* call leaves the view present with its previous bounds; and the event loop
\* keeps running.
C7_ResizeNeverFails ==
    /\ [](mainExists => loopAlive)
    /\ [][(HandlerStep /\ ev'.kind = "Resized" /\ view = "Present")
            => /\ ev'.sfRead = "err"
                    => /\ ev'.sf = DefaultScale
                       /\ ev'.req = calculate_webview_bounds(
                                       winSize'.width, winSize'.height,
                                       DefaultScale, TITLEBAR_HEIGHT)
                       /\ ev'.set \in {"ok", "err"}
               /\ ev'.set = "err"
                    => (viewBounds' = viewBounds /\ view' = "Present")
               /\ loopAlive']_vars

\* Both the scale-factor query and the set-bounds call failed in a resize.
C7_Witness ==
    /\ view = "Present" /\ loopAlive
    /\ ev.kind = "Resized" /\ ev.sfRead = "err" /\ ev.set = "err"
    /\ scale # DefaultScale

\* C8: the view becomes present only in the step in which an invocation's
\* add_child call succeeds and the invocation returns Ok(()); an invocation
\* whose last host call failed, or that found no main window, returns an error
\* and does not change the view; once present, the view stays present.
C8_LifecycleMonotone ==
    [][/\ (view = "Absent" /\ view' = "Present")
            => \E p \in Invokers :
                  /\ pc[p] = "add_child" /\ pc'[p] = "done"
                  /\ result'[p] = "Ok"
                  /\ calls'[p][Len(calls'[p])] = Call("add_child", TRUE)
       /\ \A p \in Invokers :
            /\ (pc[p] # "done" /\ pc'[p] = "done" /\ result'[p] # "Ok")
                 => view' = view
            /\ (pc[p] # "done" /\ pc'[p] = "done" /\ Len(calls'[p]) > 0
                  /\ ~calls'[p][Len(calls'[p])].ok)
                 => (result'[p] = "TauriError" /\ view' = view)
       /\ view = "Present" => view' = "Present"]_vars

\* The view is present, an invocation's attach failed, and a resize was handled.
C8_Witness ==
    /\ view = "Present"
    /\ ev.kind = "Resized"
    /\ \E p \in Invokers :
          /\ pc[p] = "done" /\ result[p] = "TauriError"
          /\ LastCall(p) = Call("add_child", FALSE)

\* C9: in create_options_window a failed un-minimize does not end the command:
\* set_focus is always called next and alone decides the result; after a
\* successful build set_focus is called and its failure is returned as an
\* error, the window it built being left in place.
C9_FocusDecides ==
    /\ [](\A p \in Invokers :
            /\ pc[p] = "set_focus_existing"
                 => (Len(calls[p]) = 1 /\ calls[p][1].op = "unminimize")
            /\ (pc[p] = "done" /\ Len(calls[p]) > 0
                  /\ (calls[p][1].op = "unminimize" \/ calls[p][1] = Call("build", TRUE)))
                 => /\ Len(calls[p]) = 2
                    /\ calls[p][2].op = "set_focus"
                    /\ result[p] = (IF calls[p][2].ok THEN "Ok" ELSE "TauriError"))
    /\ [][\A p \in Invokers :
            (pc[p] = "set_focus_new" /\ pc'[p] = "done")
               => (optWindows' = optWindows /\ optMinimized' = optMinimized)]_vars

\* The un-minimize call failed, set_focus succeeded, the command returned Ok(()).
C9_Witness ==
    \E p \in Invokers :
        /\ pc[p] = "done" /\ result[p] = "Ok"
        /\ calls[p] = <<Call("unminimize", FALSE), Call("set_focus", TRUE)>>

\* C10: whenever the view is present, no host call has failed and no
\* invocation is in flight, the view's bounds are calculate_webview_bounds of
\* the main window's current size and scale factor.
C10_BoundsInSync ==
    (/\ view = "Present"
     /\ ~hostFailed
     /\ \A p \in Invokers : pc[p] \in {"idle", "done"})
        => viewBounds = calculate_webview_bounds(winSize.width, winSize.height,
                                                 scale, TITLEBAR_HEIGHT)
====
